---- MODULE Spec2Model ----
(***************************************************************************)
(* Model of ond_art_ci_pack/validator.py: main() validating a batch of     *)
(* OND-ART report files against a JSON schema and the extra invariants.    *)
(*                                                                         *)
(* JSON values.  A JSON object (Python dict) is a function from key        *)
(* strings to values, so a missing key is really missing from its DOMAIN.  *)
(* Every other value is a record with a type tag t:                        *)
(*   [t |-> "null"|"int"|"float"|"bool"|"str", v |-> Int, s |-> STRING]    *)
(*   [t |-> "list", items |-> sequence of values]                          *)
(*   [t |-> "str", chars |-> sequence of characters]   (free text: notes)  *)
(* Numbers are carried on a fixed-point grid whose step is half of the     *)
(* tolerance TOL = 1e-12, so TOL is 2 grid steps; rounding of IEEE doubles *)
(* is outside the model.                                                   *)
(***************************************************************************)
EXTENDS Integers, Sequences, FiniteSets, TLC

VARIABLES cfg, files, pc, i, any_failed, rc, log

vars == <<cfg, files, pc, i, any_failed, rc, log>>

\* ------------------------------------------------------------------ bounds
\* Largest grid value a number of a generated report takes.
MaxVal == 4
\* Largest count (data.N, data.invalid_count) of a generated report.
MaxCount == 2
\* Longest free-text note of a generated report, in characters.
MaxItemLen == 3
\* Longest batch of small documents.
MaxFiles == 2

\* --------------------------------------------------------------- constants
\* validator.py:22, in grid steps (one step = TOL / 2).
TOL == 2

\* validator.py:23, abbreviated over the model's alphabet ("D...c").
DISCLAIMER_TEXT == <<"D", "c">>

\* validator.py:98: os.environ.get("DEFAULT_PROFILE", "core").
DEFAULT_PROFILE == "core"

Chars == {"D", "d", "C", "c", "x"}

\* -------------------------------------------------------------- JSON values
None == [t |-> "null", v |-> 0, s |-> ""]
IntV(n) == [t |-> "int", v |-> n, s |-> ""]
FloatV(n) == [t |-> "float", v |-> n, s |-> ""]
BoolV(b) == [t |-> "bool", v |-> IF b THEN 1 ELSE 0, s |-> ""]
StrV(str) == [t |-> "str", v |-> 0, s |-> str]
TextV(cs) == [t |-> "str", chars |-> cs]
ListV(xs) == [t |-> "list", items |-> xs]

\* isinstance(x, dict)
IsDict(x) == "t" \notin DOMAIN x
\* isinstance(x, list)
IsList(x) == ~IsDict(x) /\ x.t = "list"
\* isinstance(x, str)
IsStr(x) == ~IsDict(x) /\ x.t = "str"
\* isinstance(x, int): bool is a subclass of int in Python
IsInt(x) == ~IsDict(x) /\ x.t \in {"int", "bool"}
\* isinstance(x, (int, float))
IsIntOrFloat(x) == ~IsDict(x) /\ x.t \in {"int", "float", "bool"}
\* float(x)
ToFloat(x) == x.v
\* d.get(k)
Get(d, k) == IF k \in DOMAIN d THEN d[k] ELSE None

\* d[k] = val on a copy
With(d, k, val) == [x \in DOMAIN d \cup {k} |-> IF x = k THEN val ELSE d[x]]
\* del d[k] on a copy
Without(d, k) == [x \in DOMAIN d \ {k} |-> d[x]]

\* A finding: which check, the field path it names, and the values it cites.
Msg(check, label, str, nums) ==
    [check |-> check, label |-> label, s |-> str, nums |-> nums]

NoMsg == Msg("none", "", "", <<>>)

\* ---------------------------------------------------------- pure functions
RECURSIVE GetNested(_, _)
GetNested(obj, keys) ==
    IF keys = <<>> THEN obj
    ELSE IF ~IsDict(obj) \/ Head(keys) \notin DOMAIN obj THEN None
    ELSE GetNested(obj[Head(keys)], Tail(keys))

\* ensure_ci_order comparing without the tolerance
EnsureCiOrderStrict(ci, path) ==
    IF Len(ci) # 2 THEN Msg("ci_length", path, "", <<>>)
    ELSE IF ci[1] > ci[2] THEN Msg("ci_order", path, "", <<ci[1], ci[2]>>)
    ELSE NoMsg

EnsureCiOrder(ci, path) ==
    IF Len(ci) # 2 THEN Msg("ci_length", path, "", <<>>)
    ELSE IF ci[1] - ci[2] > TOL THEN Msg("ci_order", path, "", <<ci[1], ci[2]>>)
    ELSE NoMsg

NumInInterval(x, ci) == (x + TOL) >= ci[1] /\ (x - TOL) <= ci[2]

CheckRequiredNumericInCi(label, value, ci, errors) ==
    IF ~IsIntOrFloat(value) \/ ~IsList(ci) THEN errors
    ELSE IF Len(ci.items) # 2 THEN errors
    ELSE IF ~NumInInterval(ToFloat(value), <<ToFloat(ci.items[1]), ToFloat(ci.items[2])>>)
         THEN Append(errors, Msg("outside_ci", label, "",
                                 <<value.v, ci.items[1].v, ci.items[2].v>>))
         ELSE errors

\* str.lower(), character by character
LowerChar(c) == IF c = "D" THEN "d" ELSE IF c = "C" THEN "c" ELSE c
Lower(cs) == [k \in 1..Len(cs) |-> LowerChar(cs[k])]

\* needle in hay (substring)
Contains(hay, needle) ==
    \E k \in 0..(Len(hay) - Len(needle)) :
        SubSeq(hay, k + 1, k + Len(needle)) = needle

\* has_required_disclaimer without the lower() calls
HasRequiredDisclaimerCaseSensitive(notes) ==
    IF ~IsList(notes) THEN FALSE
    ELSE \E k \in 1..Len(notes.items) :
            /\ IsStr(notes.items[k])
            /\ Contains(notes.items[k].chars, DISCLAIMER_TEXT)

HasRequiredDisclaimer(notes) ==
    IF ~IsList(notes) THEN FALSE
    ELSE \E k \in 1..Len(notes.items) :
            /\ IsStr(notes.items[k])
            /\ Contains(Lower(notes.items[k].chars), Lower(DISCLAIMER_TEXT))

InjectDefaultProfile(report, default_profile) ==
    LET spec == Get(report, "spec") IN
    IF ~IsDict(spec) THEN report
    ELSE IF \/ "profile" \notin DOMAIN spec
            \/ ~IsStr(spec["profile"])
            \/ spec["profile"].s = ""
         THEN With(report, "spec", With(spec, "profile", StrV(default_profile)))
         ELSE report

\* ------------------------------------------------- the invariant battery
\* the count check with a sign guard added
CheckCountsNonNegative(report, errors) ==
    LET N == GetNested(report, <<"data", "N">>)
        invalid_count == GetNested(report, <<"data", "invalid_count">>)
    IN  IF /\ IsInt(N) /\ IsInt(invalid_count)
           /\ N.v >= 0 /\ invalid_count.v >= 0
           /\ invalid_count.v > N.v
        THEN Append(errors, Msg("count", "data.invalid_count", "",
                                <<invalid_count.v, N.v>>))
        ELSE errors

\* invalid_count <= N
CheckCounts(report, errors) ==
    LET N == GetNested(report, <<"data", "N">>)
        invalid_count == GetNested(report, <<"data", "invalid_count">>)
    IN  IF IsInt(N) /\ IsInt(invalid_count) /\ invalid_count.v > N.v
        THEN Append(errors, Msg("count", "data.invalid_count", "",
                                <<invalid_count.v, N.v>>))
        ELSE errors

\* ci_paths: the known CI locations, baseline.distance_ci95 only if not None
CiPaths(report) ==
    LET known == << <<"metrics.rank.ci95",
                      GetNested(report, <<"metrics", "rank", "ci95">>)>>,
                    <<"metrics.subspace.ci95",
                      GetNested(report, <<"metrics", "subspace", "ci95">>)>>,
                    <<"metrics.branching.ci95",
                      GetNested(report, <<"metrics", "branching", "ci95">>)>> >>
        baseline_ci == GetNested(report, <<"baseline", "distance_ci95">>)
    IN  IF baseline_ci # None
        THEN Append(known, <<"baseline.distance_ci95", baseline_ci>>)
        ELSE known

\* for label, ci in ci_paths: ...
RECURSIVE CheckCiOrders(_, _)
CheckCiOrders(ci_paths, errors) ==
    IF ci_paths = <<>> THEN errors
    ELSE LET label == Head(ci_paths)[1]
             ci == Head(ci_paths)[2]
             shaped == /\ IsList(ci)
                       /\ Len(ci.items) = 2
                       /\ \A k \in 1..2 : IsIntOrFloat(ci.items[k])
             msg == IF shaped
                    THEN EnsureCiOrder(<<ToFloat(ci.items[1]), ToFloat(ci.items[2])>>, label)
                    ELSE NoMsg
         IN  CheckCiOrders(Tail(ci_paths),
                           IF msg # NoMsg THEN Append(errors, msg) ELSE errors)

\* Value inside CI checks for the three metrics
CheckMetricValues(report, errors) ==
    LET e1 == CheckRequiredNumericInCi("metrics.rank.rho",
                  GetNested(report, <<"metrics", "rank", "rho">>),
                  GetNested(report, <<"metrics", "rank", "ci95">>), errors)
        e2 == CheckRequiredNumericInCi("metrics.subspace.rho",
                  GetNested(report, <<"metrics", "subspace", "rho">>),
                  GetNested(report, <<"metrics", "subspace", "ci95">>), e1)
    IN  CheckRequiredNumericInCi("metrics.branching.H",
                  GetNested(report, <<"metrics", "branching", "H">>),
                  GetNested(report, <<"metrics", "branching", "ci95">>), e2)

\* thresholds monotonic
CheckThresholds(thr, errors) ==
    IF ~IsDict(thr) THEN errors
    ELSE LET g == Get(thr, "green")
             y == Get(thr, "yellow")
             r == Get(thr, "red")
         IN  IF IsIntOrFloat(g) /\ IsIntOrFloat(y) /\ IsIntOrFloat(r)
             THEN IF ~(ToFloat(g) <= ToFloat(y) + TOL /\ ToFloat(y) <= ToFloat(r) + TOL)
                  THEN Append(errors, Msg("thresholds_order", "baseline.thresholds", "",
                                          <<g.v, y.v, r.v>>))
                  ELSE errors
             ELSE Append(errors, Msg("thresholds_numeric", "baseline.thresholds", "", <<>>))

\* the forbidden-label check skipped once an error is recorded
CheckForbiddenShortCircuit(cls, forbid, errors) ==
    IF errors = <<>> /\ IsStr(cls) /\ cls.s \in forbid
    THEN Append(errors, Msg("forbidden", "baseline.classification", cls.s, <<>>))
    ELSE errors

\* forbidden classification
CheckForbidden(cls, forbid, errors) ==
    IF IsStr(cls) /\ cls.s \in forbid
    THEN Append(errors, Msg("forbidden", "baseline.classification", cls.s, <<>>))
    ELSE errors

\* the consistency check comparing without the tolerance
CheckConsistencyNoTolerance(baseline, strict_classification, errors) ==
    LET thr == Get(baseline, "thresholds")
        cls == Get(baseline, "classification")
        distance == Get(baseline, "distance")
    IN  IF /\ strict_classification
           /\ IsDict(thr)
           /\ \A k \in {"green", "yellow", "red"} : IsIntOrFloat(Get(thr, k))
           /\ IsIntOrFloat(distance)
           /\ IsStr(cls)
        THEN LET dist == ToFloat(distance)
                 green == ToFloat(thr["green"])
                 yellow == ToFloat(thr["yellow"])
                 red == ToFloat(thr["red"])
                 e1 == IF cls.s = "Within Baseline Envelope" /\ dist > yellow
                       THEN Append(errors, Msg("consistency", "baseline.classification",
                                               cls.s, <<dist, yellow>>))
                       ELSE errors
                 e2 == IF cls.s = "Strong Deviation" /\ dist < red
                       THEN Append(e1, Msg("consistency", "baseline.classification",
                                           cls.s, <<dist, red>>))
                       ELSE e1
             IN  IF cls.s = "Deviating" /\ ~(green <= dist /\ dist <= red)
                 THEN Append(e2, Msg("consistency", "baseline.classification",
                                     cls.s, <<dist, green, red>>))
                 ELSE e2
        ELSE errors

\* optional consistency between distance and thresholds
CheckConsistency(baseline, strict_classification, errors) ==
    LET thr == Get(baseline, "thresholds")
        cls == Get(baseline, "classification")
        distance == Get(baseline, "distance")
    IN  IF /\ strict_classification
           /\ IsDict(thr)
           /\ \A k \in {"green", "yellow", "red"} : IsIntOrFloat(Get(thr, k))
           /\ IsIntOrFloat(distance)
           /\ IsStr(cls)
        THEN LET dist == ToFloat(distance)
                 green == ToFloat(thr["green"])
                 yellow == ToFloat(thr["yellow"])
                 red == ToFloat(thr["red"])
                 e1 == IF cls.s = "Within Baseline Envelope" /\ dist > yellow + TOL
                       THEN Append(errors, Msg("consistency", "baseline.classification",
                                               cls.s, <<dist, yellow>>))
                       ELSE errors
                 e2 == IF cls.s = "Strong Deviation" /\ dist < red - TOL
                       THEN Append(e1, Msg("consistency", "baseline.classification",
                                           cls.s, <<dist, red>>))
                       ELSE e1
             IN  IF cls.s = "Deviating" /\ ~(green - TOL <= dist /\ dist <= red + TOL)
                 THEN Append(e2, Msg("consistency", "baseline.classification",
                                     cls.s, <<dist, green, red>>))
                 ELSE e2
        ELSE errors

\* Baseline invariants
CheckBaseline(report, forbid, strict_classification, errors) ==
    LET baseline == Get(report, "baseline") IN
    IF ~IsDict(baseline) THEN errors
    ELSE LET e1 == CheckRequiredNumericInCi("baseline.distance",
                       Get(baseline, "distance"), Get(baseline, "distance_ci95"), errors)
             e2 == CheckThresholds(Get(baseline, "thresholds"), e1)
             e3 == CheckForbidden(Get(baseline, "classification"), forbid, e2)
         IN  CheckConsistency(baseline, strict_classification, e3)

DisclaimerMsg == Msg("disclaimer", "notes", "", <<>>)

\* Standard diagnostic disclaimer check: the error branch
CheckDisclaimerError(report, require_disclaimer, errors) ==
    IF ~HasRequiredDisclaimer(Get(report, "notes")) /\ require_disclaimer
    THEN Append(errors, DisclaimerMsg)
    ELSE errors

\* Standard diagnostic disclaimer check: the warning branch
CheckDisclaimerWarning(report, require_disclaimer, warnings) ==
    IF ~HasRequiredDisclaimer(Get(report, "notes")) /\ ~require_disclaimer
    THEN Append(warnings, DisclaimerMsg)
    ELSE warnings

\* extra_errors after the whole battery has run on one report
ExtraErrors(report, c) ==
    LET e1 == CheckCounts(report, <<>>)
        e2 == CheckCiOrders(CiPaths(report), e1)
        e3 == CheckMetricValues(report, e2)
        e4 == CheckBaseline(report, c.forbid, c.strict_classification, e3)
    IN  CheckDisclaimerError(report, c.require_disclaimer, e4)

\* extra_warnings after the whole battery has run on one report
ExtraWarnings(report, c) ==
    CheckDisclaimerWarning(report, c.require_disclaimer, <<>>)

\* ---------------------------------------------- the schema (an oracle here)
\* The schema file is not part of the validator's source.  It is modelled from
\* its contract: a conformant report has the right primitive type in every
\* field it carries (JSON Schema 2020-12: "integer" admits 10.0, no type
\* admits a boolean for a number), and the two rules the tests exercise.
IsJsonNumber(x) == ~IsDict(x) /\ x.t \in {"int", "float"}

IsNumberList(x) ==
    IsList(x) /\ \A k \in 1..Len(x.items) : IsJsonNumber(x.items[k])

IsTextList(x) ==
    IsList(x) /\ \A k \in 1..Len(x.items) : IsStr(x.items[k])

\* key k of dict d is missing or satisfies Ok
OptNumber(d, k) == k \notin DOMAIN d \/ IsJsonNumber(d[k])
OptNumberList(d, k) == k \notin DOMAIN d \/ IsNumberList(d[k])

MetricConforms(m, valkey) == OptNumber(m, valkey) /\ OptNumberList(m, "ci95")

ThresholdsConform(thr) ==
    IsDict(thr) /\ \A k \in {"green", "yellow", "red"} : OptNumber(thr, k)

BaselineConforms(b) ==
    \/ b = None
    \/ /\ IsDict(b)
       /\ OptNumber(b, "distance")
       /\ OptNumberList(b, "distance_ci95")
       /\ ("thresholds" \in DOMAIN b => ThresholdsConform(b["thresholds"]))
       /\ ("classification" \in DOMAIN b => IsStr(b["classification"]))

\* <<path, holds>> for every rule, in path order
SchemaRules(report) ==
    << <<"/baseline", BaselineConforms(report["baseline"])>>,
       <<"/data/N", OptNumber(report["data"], "N")>>,
       <<"/data/invalid_count", OptNumber(report["data"], "invalid_count")>>,
       <<"/metrics/branching", MetricConforms(report["metrics"]["branching"], "H")>>,
       <<"/metrics/rank", MetricConforms(report["metrics"]["rank"], "rho")>>,
       <<"/metrics/subspace", MetricConforms(report["metrics"]["subspace"], "rho")>>,
       <<"/notes", "notes" \notin DOMAIN report \/ IsTextList(report["notes"])>>,
       <<"/pi/obs_space", report["pi"]["obs_space"]["type"].s = "R^d"
                            => "d" \in DOMAIN report["pi"]["obs_space"]>>,
       <<"/spec", /\ IsDict(report["spec"])
                  /\ "profile" \in DOMAIN report["spec"]
                  /\ IsStr(report["spec"]["profile"])>> >>

RECURSIVE Violations(_)
Violations(rules) ==
    IF rules = <<>> THEN <<>>
    ELSE LET rest == Violations(Tail(rules)) IN
         IF Head(rules)[2] THEN rest
         ELSE <<Msg("schema", Head(rules)[1], "", <<>>)>> \o rest

\* sorted(validator.iter_errors(report), key=path)
SchemaErrors(report) == Violations(SchemaRules(report))

\* ------------------------------------------------------- generated reports
\* Marks a key to leave out of a generated report.
Absent == [t |-> "absent", v |-> 0, s |-> ""]

Put(d, k, x) == IF x = Absent THEN Without(d, k) ELSE With(d, k, x)

Nums == 0..MaxVal

Ci(a, b) == ListV(<<FloatV(a), FloatV(b)>>)

\* tests/test_validator.py base_report(), on the grid
BaseReport ==
    [spec |-> [name |-> StrV("OND-ART"), version |-> StrV("0.1"),
               profile |-> StrV("core")],
     data |-> [N |-> IntV(MaxCount), invalid_count |-> IntV(0)],
     pi |-> [obs_space |-> [type |-> StrV("R^d"), d |-> IntV(2)]],
     metrics |-> [rank |-> [rho |-> FloatV(1), ci95 |-> Ci(0, 2)],
                  subspace |-> [rho |-> FloatV(1), ci95 |-> Ci(0, 2)],
                  branching |-> [H |-> FloatV(1), ci95 |-> Ci(0, 2)]],
     baseline |-> None,
     notes |-> ListV(<<TextV(DISCLAIMER_TEXT)>>)]

\* tests/test_validator.py test_strict_classification_fails, made consistent
BaseBaseline ==
    [baseline_id |-> StrV("release-1"),
     distance |-> FloatV(1),
     distance_ci95 |-> Ci(0, 2),
     classification |-> StrV("Within Baseline Envelope"),
     thresholds |-> [green |-> FloatV(0), yellow |-> FloatV(1), red |-> FloatV(2)]]

SetData(r, k, x) == With(r, "data", Put(r["data"], k, x))

SetMetric(r, m, k, x) ==
    With(r, "metrics", With(r["metrics"], m, Put(r["metrics"][m], k, x)))

SetBaseline(r, k, x) == With(r, "baseline", Put(r["baseline"], k, x))

ValKey(m) == IF m = "branching" THEN "H" ELSE "rho"

CountValues ==
    {IntV(n) : n \in (0 - 2)..MaxCount}
        \cup {FloatV(1), BoolV(TRUE), StrV("x"), Absent}

CiValues ==
    {Ci(a, b) : a, b \in Nums}
        \cup {ListV(<<FloatV(0)>>), ListV(<<FloatV(0), FloatV(1), FloatV(2)>>),
              StrV("x"), Absent}

ValValues == {FloatV(n) : n \in Nums} \cup {StrV("x"), Absent}

Labels == {"Within Baseline Envelope", "Strong Deviation", "Deviating",
           "Inconclusive", "within baseline envelope"}

ClsValues == {StrV(l) : l \in Labels} \cup {Absent}

ThrValues ==
    {[green |-> FloatV(g), yellow |-> FloatV(y), red |-> FloatV(r)] :
        g, y, r \in Nums}
        \cup {[green |-> FloatV(0), yellow |-> FloatV(1)],
              [green |-> FloatV(0), yellow |-> StrV("x"), red |-> FloatV(2)],
              Absent}

CountReports ==
    {SetData(SetData(BaseReport, "N", n), "invalid_count", c) :
        n, c \in CountValues}

MetricReports ==
    {SetMetric(SetMetric(BaseReport, m, ValKey(m), x), m, "ci95", ci) :
        m \in {"rank", "subspace", "branching"}, x \in ValValues, ci \in CiValues}

WithBaseline == With(BaseReport, "baseline", BaseBaseline)

DistanceReports ==
    {SetBaseline(SetBaseline(WithBaseline, "distance", x), "distance_ci95", ci) :
        x \in ValValues, ci \in CiValues}

BaselineReports ==
    {SetBaseline(SetBaseline(SetBaseline(
         SetBaseline(WithBaseline, "distance_ci95", Ci(0, MaxVal)),
         "distance", x), "thresholds", thr), "classification", cls) :
        x \in {FloatV(n) : n \in Nums} \cup {Absent},
        thr \in ThrValues, cls \in ClsValues}

RECURSIVE Texts(_)
Texts(n) ==
    IF n = 0 THEN {<<>>}
    ELSE LET shorter == Texts(n - 1) IN
         shorter \cup {Append(t, c) : t \in shorter, c \in Chars}

NotesValues ==
    {ListV(<<TextV(t)>>) : t \in Texts(MaxItemLen)}
        \cup {ListV(<<>>), ListV(<<TextV(<<"x">>), TextV(<<"d", "C">>)>>),
              ListV(<<TextV(<<"D">>), TextV(<<"c">>)>>),
              ListV(<<IntV(1)>>), None, Absent}

NotesReports == {Put(BaseReport, "notes", x) : x \in NotesValues}

ProfileValues ==
    {StrV("core"), StrV("extended"), StrV(""), IntV(5), None, Absent}

ProfileReports ==
    {With(BaseReport, "spec", Put(BaseReport["spec"], "profile", x)) :
        x \in ProfileValues}
        \cup {With(BaseReport, "spec", None),
              With(BaseReport, "pi", [obs_space |-> [type |-> StrV("R^d")]])}

\* Reports that break several invariants at once.
BadBaseline ==
    [baseline_id |-> StrV("release-1"),
     distance |-> FloatV(0),
     distance_ci95 |-> Ci(MaxVal, 0),
     classification |-> StrV("Strong Deviation"),
     thresholds |-> [green |-> FloatV(MaxVal), yellow |-> FloatV(0),
                     red |-> FloatV(MaxVal)]]

ComboReports ==
    {[BaseReport EXCEPT
        !["data"]["invalid_count"] = IntV(c),
        !["metrics"]["rank"] = rk,
        !["metrics"]["subspace"] = sb,
        !["metrics"]["branching"] = br,
        !["baseline"] = bl,
        !["notes"] = nt] :
        c \in {0, MaxCount + 1},
        rk \in {[rho |-> FloatV(1), ci95 |-> Ci(0, 2)],
                [rho |-> FloatV(0), ci95 |-> Ci(MaxVal, 0)]},
        sb \in {[rho |-> FloatV(1), ci95 |-> Ci(0, 2)],
                [rho |-> FloatV(1), ci95 |-> Ci(MaxVal, 0)]},
        br \in {[H |-> FloatV(1), ci95 |-> Ci(0, 2)],
                [H |-> FloatV(MaxVal), ci95 |-> Ci(0, 0)]},
        bl \in {None, BaseBaseline, BadBaseline,
                [BadBaseline EXCEPT !["classification"] = StrV("Deviating")]},
        nt \in {ListV(<<TextV(DISCLAIMER_TEXT)>>), ListV(<<TextV(<<"x">>)>>)}}

RichReports ==
    CountReports \cup MetricReports \cup DistanceReports \cup BaselineReports
        \cup NotesReports \cup ProfileReports \cup ComboReports

\* A discovered file: its name, whether it parses, and what it parses to.
File(is_schema, parses, report) ==
    [name_is_schema |-> is_schema, valid_json |-> parses, report |-> report]

SmallFiles ==
    {File(TRUE, TRUE, BaseReport),
     File(FALSE, FALSE, BaseReport),
     File(FALSE, TRUE, BaseReport),
     File(FALSE, TRUE, Put(BaseReport, "notes", ListV(<<TextV(<<"x">>)>>))),
     File(FALSE, TRUE, SetData(BaseReport, "invalid_count", IntV(MaxCount + 1))),
     File(FALSE, TRUE, With(BaseReport, "pi", [obs_space |-> [type |-> StrV("R^d")]]))}

RECURSIVE SeqsUpTo(_, _)
SeqsUpTo(S, n) ==
    IF n = 0 THEN {<<>>}
    ELSE LET shorter == SeqsUpTo(S, n - 1) IN
         shorter \cup {Append(q, x) : q \in shorter, x \in S}

\* sorted(glob.glob(report_glob)): what the glob can find
Batches ==
    SeqsUpTo(SmallFiles, MaxFiles) \cup {<<File(FALSE, TRUE, r)>> : r \in RichReports}

\* ------------------------------------------------------------ main()
\* The environment main() reads (validator.py:94-100) and the schema file's state.
Configs ==
    [schema_state : {"ok", "missing", "invalid"},
     forbid : {{}, {"Strong Deviation"}},
     default_profile : {DEFAULT_PROFILE},
     strict_classification : BOOLEAN,
     require_disclaimer : BOOLEAN]

\* gh_error / gh_warning annotations
Errors(msgs) == [k \in 1..Len(msgs) |-> [sev |-> "error", msg |-> msgs[k]]]
Warnings(msgs) == [k \in 1..Len(msgs) |-> [sev |-> "warning", msg |-> msgs[k]]]

\* What main() did with file idx.
Outcome(idx, kind, report, errors, warnings, emitted) ==
    [idx |-> idx, kind |-> kind, report |-> report,
     extra_errors |-> errors, extra_warnings |-> warnings, emitted |-> emitted]

Init ==
    /\ cfg \in Configs
    /\ files = <<>>
    /\ pc = "start"
    /\ i = 1
    /\ any_failed = FALSE
    /\ rc = 0 - 1
    /\ log = <<>>

\* Schema not found, or invalid schema JSON: return 1
ConfigError ==
    /\ pc = "start"
    /\ cfg.schema_state # "ok"
    /\ rc' = 1
    /\ pc' = "done"
    /\ UNCHANGED <<cfg, files, i, any_failed, log>>

\* files = sorted(glob(...)); an empty batch returns 0
Discover ==
    /\ pc = "start"
    /\ cfg.schema_state = "ok"
    /\ \E batch \in Batches :
        /\ files' = batch
        /\ IF batch = <<>>
           THEN rc' = 0 /\ pc' = "done"
           ELSE rc' = rc /\ pc' = "loop"
    /\ any_failed' = FALSE
    /\ UNCHANGED <<cfg, i, log>>

\* p.name.endswith(".schema.json"): continue
SkipSchemaFile ==
    /\ pc = "loop"
    /\ i <= Len(files)
    /\ files[i].name_is_schema
    /\ i' = i + 1
    /\ UNCHANGED <<cfg, files, pc, any_failed, rc, log>>

\* load_json raised and the exception ends the run
InvalidJsonAbort ==
    /\ pc = "loop"
    /\ i <= Len(files)
    /\ ~files[i].name_is_schema
    /\ ~files[i].valid_json
    /\ any_failed' = TRUE
    /\ rc' = 1
    /\ pc' = "done"
    /\ UNCHANGED <<cfg, files, i, log>>

\* load_json raised: annotate, fail, continue
InvalidJson ==
    /\ pc = "loop"
    /\ i <= Len(files)
    /\ ~files[i].name_is_schema
    /\ ~files[i].valid_json
    /\ log' = Append(log, Outcome(i, "invalid_json", None, <<>>, <<>>,
                                  Errors(<<Msg("invalid_json", "", "", <<>>)>>)))
    /\ any_failed' = TRUE
    /\ i' = i + 1
    /\ UNCHANGED <<cfg, files, pc, rc>>

\* the report as the schema check sees it
Injected(f) == InjectDefaultProfile(f.report, cfg.default_profile)

\* schema errors without the continue: the battery still runs
SchemaFailedRunsBattery ==
    /\ pc = "loop"
    /\ i <= Len(files)
    /\ ~files[i].name_is_schema
    /\ files[i].valid_json
    /\ LET report == Injected(files[i])
           errors == SchemaErrors(report)
           extra_errors == ExtraErrors(report, cfg)
       IN  /\ errors # <<>>
           /\ log' = Append(log, Outcome(i, "schema_failed", report, extra_errors, <<>>,
                                         Errors(errors) \o Errors(extra_errors)))
    /\ any_failed' = TRUE
    /\ i' = i + 1
    /\ UNCHANGED <<cfg, files, pc, rc>>

\* schema errors: annotate each, fail, continue
SchemaFailed ==
    /\ pc = "loop"
    /\ i <= Len(files)
    /\ ~files[i].name_is_schema
    /\ files[i].valid_json
    /\ LET report == Injected(files[i])
           errors == SchemaErrors(report)
       IN  /\ errors # <<>>
           /\ log' = Append(log, Outcome(i, "schema_failed", report, <<>>, <<>>,
                                         Errors(errors)))
    /\ any_failed' = TRUE
    /\ i' = i + 1
    /\ UNCHANGED <<cfg, files, pc, rc>>

\* extra invariant errors: annotate each, fail, continue
InvariantFailed ==
    /\ pc = "loop"
    /\ i <= Len(files)
    /\ ~files[i].name_is_schema
    /\ files[i].valid_json
    /\ LET report == Injected(files[i])
           extra_errors == ExtraErrors(report, cfg)
           extra_warnings == ExtraWarnings(report, cfg)
       IN  /\ SchemaErrors(report) = <<>>
           /\ extra_errors # <<>>
           /\ log' = Append(log, Outcome(i, "invariant_failed", report, extra_errors,
                                         extra_warnings, Errors(extra_errors)))
    /\ any_failed' = TRUE
    /\ i' = i + 1
    /\ UNCHANGED <<cfg, files, pc, rc>>

\* no errors: show the warnings, OK
Passed ==
    /\ pc = "loop"
    /\ i <= Len(files)
    /\ ~files[i].name_is_schema
    /\ files[i].valid_json
    /\ LET report == Injected(files[i])
           extra_errors == ExtraErrors(report, cfg)
           extra_warnings == ExtraWarnings(report, cfg)
       IN  /\ SchemaErrors(report) = <<>>
           /\ extra_errors = <<>>
           /\ log' = Append(log, Outcome(i, "passed", report, extra_errors,
                                         extra_warnings, Warnings(extra_warnings)))
    /\ i' = i + 1
    /\ UNCHANGED <<cfg, files, pc, any_failed, rc>>

\* return 0 whatever any_failed holds
ReturnAlwaysZero ==
    /\ pc = "loop"
    /\ i > Len(files)
    /\ rc' = 0
    /\ pc' = "done"
    /\ UNCHANGED <<cfg, files, i, any_failed, log>>

\* return 1 if any_failed else 0
Return ==
    /\ pc = "loop"
    /\ i > Len(files)
    /\ rc' = IF any_failed THEN 1 ELSE 0
    /\ pc' = "done"
    /\ UNCHANGED <<cfg, files, i, any_failed, log>>

Next ==
    \/ ConfigError
    \/ Discover
    \/ SkipSchemaFile
    \/ InvalidJson
    \/ SchemaFailed
    \/ InvariantFailed
    \/ Passed
    \/ Return

Spec == Init /\ [][Next]_vars

\* ------------------------------------------------------------ properties
\* main() has returned after discovering the batch
Returned == pc = "done" /\ cfg.schema_state = "ok"

\* the outcome reached the invariant battery
Battery(e) == e.kind \in {"invariant_failed", "passed"}

Entries == {log[k] : k \in 1..Len(log)}

InSeq(q, x) == \E k \in 1..Len(q) : q[k] = x

Finds(q, check, label) ==
    \E k \in 1..Len(q) : q[k].check = check /\ q[k].label = label

\* a two-element numeric list
IsCi(ci) ==
    IsList(ci) /\ Len(ci.items) = 2 /\ \A k \in 1..2 : IsIntOrFloat(ci.items[k])

\* C1: once the batch is discovered and main() has returned, the exit code is
\* 0 or 1, and it is 0 exactly when no processed document had a JSON-parse
\* failure, a schema failure or an invariant error; warnings play no part.
C1_ExitCodeIffNoFailure ==
    Returned =>
        /\ rc \in {0, 1}
        /\ rc = 0 <=> \A e \in Entries :
                         /\ files[e.idx].valid_json
                         /\ SchemaErrors(e.report) = <<>>
                         /\ e.extra_errors = <<>>

\* C1 witness: a two-document batch returned 0 although a document had a warning.
C1_Witness ==
    /\ Returned
    /\ rc = 0
    /\ Len(log) = 2
    /\ \E e \in Entries : e.extra_warnings # <<>>

\* C2: when main() returns, every file that is not schema-named has exactly one
\* outcome (parse failure, structural failure, invariant failure or pass),
\* wherever a failing document stood before it; schema-named files have none.
C2_EveryDocumentGetsOneOutcome ==
    Returned =>
        \A k \in 1..Len(files) :
            LET mine == {n \in 1..Len(log) : log[n].idx = k} IN
            IF files[k].name_is_schema THEN mine = {}
            ELSE /\ Cardinality(mine) = 1
                 /\ \A n \in mine :
                        log[n].kind \in {"invalid_json", "schema_failed",
                                         "invariant_failed", "passed"}

\* C2 witness: the first document failed to parse and the second one passed.
C2_Witness ==
    /\ Returned
    /\ Len(files) = 2
    /\ Len(log) = 2
    /\ log[1].kind = "invalid_json"
    /\ log[2].kind = "passed"

\* C3: a document with at least one structural error is recorded as failed and
\* the invariant battery is not run on it: no invariant error or warning is
\* computed or emitted for it, only its schema errors.
C3_SchemaFailureSkipsInvariants ==
    \A e \in Entries :
        (e.kind # "invalid_json" /\ SchemaErrors(e.report) # <<>>) =>
            /\ any_failed
            /\ e.kind = "schema_failed"
            /\ e.extra_errors = <<>>
            /\ e.extra_warnings = <<>>
            /\ e.emitted # <<>>
            /\ \A k \in 1..Len(e.emitted) :
                   e.emitted[k].sev = "error" /\ e.emitted[k].msg.check = "schema"

\* C3 witness: a structurally invalid document on which the battery would have
\* found something.
C3_Witness ==
    \E e \in Entries :
        /\ e.kind = "schema_failed"
        /\ ExtraErrors(e.report, cfg) # <<>>

\* the violation condition of each check, read off the report
CountViolated(r) ==
    LET N == GetNested(r, <<"data", "N">>)
        c == GetNested(r, <<"data", "invalid_count">>)
    IN  IsInt(N) /\ IsInt(c) /\ c.v > N.v

CiReversed(ci) == IsCi(ci) /\ ci.items[1].v - ci.items[2].v > TOL

ValueOutside(x, ci) ==
    /\ IsIntOrFloat(x)
    /\ IsList(ci)
    /\ Len(ci.items) = 2
    /\ (x.v < ci.items[1].v - TOL \/ x.v > ci.items[2].v + TOL)

ThresholdsTyped(thr) ==
    IsDict(thr) /\ \A k \in {"green", "yellow", "red"} : IsIntOrFloat(Get(thr, k))

ThresholdsViolated(thr) ==
    /\ IsDict(thr)
    /\ ThresholdsTyped(thr) =>
           (thr["green"].v > thr["yellow"].v + TOL \/ thr["yellow"].v > thr["red"].v + TOL)

Inconsistent(b) ==
    /\ IsDict(b)
    /\ ThresholdsTyped(Get(b, "thresholds"))
    /\ IsIntOrFloat(Get(b, "distance"))
    /\ IsStr(Get(b, "classification"))
    /\ LET d == b["distance"].v
           thr == b["thresholds"]
           label == b["classification"].s
       IN  \/ label = "Within Baseline Envelope" /\ d > thr["yellow"].v + TOL
           \/ label = "Strong Deviation" /\ d < thr["red"].v - TOL
           \/ label = "Deviating" /\ (d < thr["green"].v - TOL \/ d > thr["red"].v + TOL)

MetricNames == {"rank", "subspace", "branching"}

\* some note is a string holding the disclaimer's letters in either case
NotesCarryDisclaimer(notes) ==
    /\ IsList(notes)
    /\ \E k \in 1..Len(notes.items) :
           /\ IsStr(notes.items[k])
           /\ \E n \in 1..(Len(notes.items[k].chars) - 1) :
                  /\ notes.items[k].chars[n] \in {"D", "d"}
                  /\ notes.items[k].chars[n + 1] \in {"C", "c"}

\* C4: on a schema-conformant document the error list holds the finding of
\* every check whose violation condition holds, whatever the other checks found.
C4_NoShortCircuit ==
    \A e \in Entries : Battery(e) =>
        LET r == e.report
            b == Get(r, "baseline")
            found == e.extra_errors
        IN  /\ CountViolated(r) => Finds(found, "count", "data.invalid_count")
            /\ \A m \in MetricNames :
                   /\ CiReversed(Get(r["metrics"][m], "ci95"))
                          => Finds(found, "ci_order", "metrics." \o m \o ".ci95")
                   /\ ValueOutside(Get(r["metrics"][m], ValKey(m)), Get(r["metrics"][m], "ci95"))
                          => Finds(found, "outside_ci", "metrics." \o m \o "." \o ValKey(m))
            /\ IsDict(b) =>
                   /\ CiReversed(Get(b, "distance_ci95"))
                          => Finds(found, "ci_order", "baseline.distance_ci95")
                   /\ ValueOutside(Get(b, "distance"), Get(b, "distance_ci95"))
                          => Finds(found, "outside_ci", "baseline.distance")
                   /\ ThresholdsViolated(Get(b, "thresholds"))
                          => \/ Finds(found, "thresholds_order", "baseline.thresholds")
                             \/ Finds(found, "thresholds_numeric", "baseline.thresholds")
                   /\ (IsStr(Get(b, "classification"))
                           /\ b["classification"].s \in cfg.forbid)
                          => Finds(found, "forbidden", "baseline.classification")
                   /\ (cfg.strict_classification /\ Inconsistent(b))
                          => Finds(found, "consistency", "baseline.classification")
            /\ (cfg.require_disclaimer /\ ~NotesCarryDisclaimer(Get(r, "notes")))
                   => InSeq(found, DisclaimerMsg)

\* C4 witness: one run that reported a finding of every kind of check at once.
C4_Witness ==
    \E e \in Entries :
        /\ Battery(e)
        /\ Len(e.extra_errors) >= 11
        /\ \A c \in {"count", "ci_order", "outside_ci", "thresholds_order",
                     "forbidden", "consistency", "disclaimer"} :
               \E k \in 1..Len(e.extra_errors) : e.extra_errors[k].check = c

\* C5: every warning the battery produced for a document is among the
\* annotations emitted for that document, also when the document has errors;
\* and a document without errors passes whatever its warnings.
C5_WarningsAlwaysReported ==
    \A e \in Entries : Battery(e) =>
        /\ \A k \in 1..Len(e.extra_warnings) :
               InSeq(e.emitted, [sev |-> "warning", msg |-> e.extra_warnings[k]])
        /\ e.extra_errors = <<>> => e.kind = "passed"

\* the report carries a profile value of its own
HasProfileValue(r) ==
    /\ IsDict(Get(r, "spec"))
    /\ "profile" \in DOMAIN r["spec"]
    /\ r["spec"]["profile"] # None
    /\ r["spec"]["profile"] # StrV("")

\* C6: the report the schema check sees is the loaded report, except that
\* spec.profile holds the default when the loaded report had no profile value;
\* a profile value already present is left as it was.
C6_InjectionNonDestructive ==
    \A e \in Entries : e.kind # "invalid_json" =>
        LET loaded == files[e.idx].report IN
        IF HasProfileValue(loaded) \/ ~IsDict(Get(loaded, "spec"))
        THEN e.report = loaded
        ELSE e.report = With(loaded, "spec",
                             With(loaded["spec"], "profile", StrV(cfg.default_profile)))

\* every error of q is the disclaimer finding
OnlyDisclaimer(q) == \A k \in 1..Len(q) : q[k] = DisclaimerMsg

\* C7: a conformant document without the disclaimer and with no other violation
\* fails with the disclaimer error when REQUIRE_DISCLAIMER is on, and passes
\* with the disclaimer warning alone when it is off; with the disclaimer in the
\* notes (in any letter case) the check produces neither.
C7_DisclaimerSeverity ==
    \A e \in Entries : Battery(e) =>
        IF NotesCarryDisclaimer(Get(e.report, "notes"))
        THEN ~InSeq(e.extra_errors, DisclaimerMsg) /\ ~InSeq(e.extra_warnings, DisclaimerMsg)
        ELSE OnlyDisclaimer(e.extra_errors) =>
                IF cfg.require_disclaimer
                THEN /\ e.extra_errors = <<DisclaimerMsg>>
                     /\ e.extra_warnings = <<>>
                     /\ e.kind = "invariant_failed"
                     /\ e.emitted = Errors(<<DisclaimerMsg>>)
                     /\ any_failed
                ELSE /\ e.extra_errors = <<>>
                     /\ e.extra_warnings = <<DisclaimerMsg>>
                     /\ e.kind = "passed"
                     /\ e.emitted = Warnings(<<DisclaimerMsg>>)

\* C7 witness: with the flag on, a document failed on the missing disclaimer alone.
C7_Witness ==
    \E e \in Entries :
        /\ cfg.require_disclaimer
        /\ e.kind = "invariant_failed"
        /\ e.extra_errors = <<DisclaimerMsg>>
        /\ IsList(Get(e.report, "notes"))
        /\ Len(e.report["notes"].items) > 0

\* C8: a consistency error is recorded exactly when strict mode is on, distance,
\* thresholds and classification are present and well-typed, and the label is
\* one of the three bound labels on the wrong side of its threshold.
C8_ConsistencyExactly ==
    \A e \in Entries : Battery(e) =>
        (Finds(e.extra_errors, "consistency", "baseline.classification")
            <=> (cfg.strict_classification /\ Inconsistent(Get(e.report, "baseline"))))

\* C8 witness: under strict mode a 'Deviating' document outside [green, red]
\* got the consistency error.
C8_Witness ==
    \E e \in Entries :
        /\ Battery(e)
        /\ \E k \in 1..Len(e.extra_errors) :
               /\ e.extra_errors[k].check = "consistency"
               /\ e.extra_errors[k].s = "Deviating"

\* a present, non-negative whole number
IsWholeNonNegative(x) == ~IsDict(x) /\ x.t \in {"int", "float"} /\ x.v >= 0

\* C9 as stated: the check applies when both counts are present non-negative
\* whole numbers, then errs exactly when invalid_count > N; otherwise it emits
\* nothing.
C9_AsStated ==
    \A e \in Entries : Battery(e) =>
        LET N == GetNested(e.report, <<"data", "N">>)
            c == GetNested(e.report, <<"data", "invalid_count">>)
        IN  Finds(e.extra_errors, "count", "data.invalid_count")
                <=> (IsWholeNonNegative(N) /\ IsWholeNonNegative(c) /\ c.v > N.v)

\* C9 amended: the check applies when both counts are present with integer type
\* (of either sign; 10.0 is not one), then records an error citing both values
\* exactly when invalid_count > N, and the document fails; otherwise nothing.
C9_CountContainment ==
    \A e \in Entries : Battery(e) =>
        LET N == GetNested(e.report, <<"data", "N">>)
            c == GetNested(e.report, <<"data", "invalid_count">>)
            applies == /\ ~IsDict(N) /\ N.t \in {"int", "bool"}
                       /\ ~IsDict(c) /\ c.t \in {"int", "bool"}
        IN  IF applies /\ c.v > N.v
            THEN /\ InSeq(e.extra_errors,
                          Msg("count", "data.invalid_count", "", <<c.v, N.v>>))
                 /\ e.kind = "invariant_failed"
                 /\ any_failed
            ELSE ~Finds(e.extra_errors, "count", "data.invalid_count")

\* C9 witness: negative counts with invalid_count > N got the error.
C9_Witness ==
    \E e \in Entries :
        /\ Battery(e)
        /\ Finds(e.extra_errors, "count", "data.invalid_count")
        /\ e.report["data"]["N"].v < 0

\* the four CI locations of a report
CiAt(r, label) ==
    IF label = "baseline.distance_ci95"
    THEN GetNested(r, <<"baseline", "distance_ci95">>)
    ELSE IF label = "metrics.rank.ci95" THEN GetNested(r, <<"metrics", "rank", "ci95">>)
    ELSE IF label = "metrics.subspace.ci95"
         THEN GetNested(r, <<"metrics", "subspace", "ci95">>)
         ELSE GetNested(r, <<"metrics", "branching", "ci95">>)

CiLabels == {"metrics.rank.ci95", "metrics.subspace.ci95", "metrics.branching.ci95",
             "baseline.distance_ci95"}

\* C10: for each CI location holding a two-element numeric list (low, high), an
\* ordering error naming the field and both bounds is recorded exactly when
\* low - high > tol, and the document then fails; other shapes get no ordering
\* error.
C10_CiOrdering ==
    \A e \in Entries : Battery(e) =>
        \A label \in CiLabels :
            LET ci == CiAt(e.report, label) IN
            IF IsCi(ci)
            THEN LET low == ci.items[1].v
                     high == ci.items[2].v
                 IN  /\ InSeq(e.extra_errors, Msg("ci_order", label, "", <<low, high>>))
                            <=> low - high > TOL
                     /\ low - high > TOL => (e.kind = "invariant_failed" /\ any_failed)
            ELSE \A k \in 1..Len(e.extra_errors) : e.extra_errors[k].label # label

\* C10 witness: a baseline distance CI reversed beyond tolerance got the error.
C10_Witness ==
    \E e \in Entries :
        /\ e.kind = "invariant_failed"
        /\ Finds(e.extra_errors, "ci_order", "baseline.distance_ci95")

====
